---- MODULE Spec2Model ----
(***************************************************************************)
(* Verification model of the ProTrade portfolio tracker.                   *)
(*                                                                         *)
(*   - utils/dateHelpers (src/unnamed/part_000, lines 1-64): the calendar  *)
(*     grid projection generateCalendarDays and the date helpers;          *)
(*   - App (src/unnamed/part_000, lines 93-256): the transaction list, its *)
(*     load from and save to localStorage, delete-by-id, the view filter,  *)
(*     the dashboard metrics (stats) and the per-day statistics            *)
(*     (getDayStats), and the state that opens the transaction form;     *)
(*   - TradeModal (src/unnamed/part_001, lines 33-267): the form state,    *)
(*     its reset effect and handleSubmit.                                  *)
(*                                                                         *)
(* Amounts are modelled as integers and every quotient as an exact         *)
(* fraction [n, d]; JavaScript's Infinity is the fraction 1/0.  The two    *)
(* amounts that are no number of the ledger, NaN and null, are two         *)
(* reserved integers (NaNAmount, NullAmount).  Date keys "YYYY-MM-DD" are  *)
(* modelled by the number YYYYMMDD, which orders dates the way             *)
(* new Date(key).getTime() does; the number 0 stands for no date.          *)
(***************************************************************************)
EXTENDS Integers, Sequences, FiniteSets

VARIABLES
    transactions,   \* App state: Transaction[]                (part_000:95)
    storage,        \* localStorage slot 'pro-trade-data'      (part_000:97)
    effectPending,  \* the [transactions] effect has yet to run (part_000:125)
    nextId,         \* number of ids generateId has handed out (part_000:86)
    currentView,    \* App state: ViewType                     (part_000:117)
    currentDate,    \* App state: the calendar's month         (part_000:116)
    lastOp,         \* history: the last operation on the list, and its argument
    isModalOpen,    \* App state: the form is shown           (part_000:120)
    modalMode,      \* App state: 'TRADE' | 'TRANSFER'        (part_000:121)
    selectedDateStr,\* App state: date key of the form, or 0  (part_000:122)
    form,           \* TradeModal state: [type, strategy, amount, note]
                    \*                                        (part_001:58-61)
    resetPending    \* the form's reset effect has yet to run (part_001:63)

\* the state of the transaction form
modalVars == <<isModalOpen, modalMode, selectedDateStr, form, resetPending>>

vars == <<transactions, storage, effectPending, nextId, currentView,
          currentDate, lastOp, isModalOpen, modalMode, selectedDateStr, form,
          resetPending>>

-----------------------------------------------------------------------------
(* Bounds of the model *)

\* longest transaction list explored
MaxTx == 3
\* number of ids generateId may hand out in one run
MaxIds == 2
\* longest stored array the application is opened on
MaxStored == 2
\* first year of the calendar window, and the number of years in it
FirstYear == 2000
NumYears == 28

-----------------------------------------------------------------------------
(* types.ts *)

STRATEGIES == <<"DAY_TRADE", "SWING", "OPTIONS">>
VIEWS == <<"OVERVIEW", "DAY_TRADE", "SWING", "OPTIONS">>
TransactionType == {"TRADE", "DEPOSIT", "WITHDRAWAL"}

Range(s) == {s[i] : i \in 1..Len(s)}
StrategyType == Range(STRATEGIES)
ViewType == Range(VIEWS)

-----------------------------------------------------------------------------
(* utils/dateHelpers *)

\* A Date is modelled by its local calendar fields [year, month, day], month
\* 0-based as in JavaScript.
IsLeapYear(y) == (y % 4 = 0 /\ y % 100 # 0) \/ y % 400 = 0

\* ECMAScript DayFromYear: the day number (since 1970-01-01) of 1 January of y
DayFromYear(y) ==
    365 * (y - 1970) + ((y - 1969) \div 4) - ((y - 1901) \div 100)
        + ((y - 1601) \div 400)

\* number of days of month m (0-based) of year y
DaysOfMonth(y, m) ==
    IF m = 1 THEN (IF IsLeapYear(y) THEN 29 ELSE 28)
    ELSE IF m \in {3, 5, 8, 10} THEN 30 ELSE 31

RECURSIVE DaysBeforeMonth(_, _)
DaysBeforeMonth(y, m) ==
    IF m = 0 THEN 0 ELSE DaysBeforeMonth(y, m - 1) + DaysOfMonth(y, m - 1)

\* new Date(year, month, day): the month may be -1 or 12 and is carried into
\* the year; the day stays within the month in every use the code makes of it
NewDate(year, month, day) ==
    [year  |-> year + ((month - (month % 12)) \div 12),
     month |-> month % 12,
     day   |-> day]

\* Date.prototype.getDay: ECMAScript WeekDay, 0 = Sunday
GetDay(date) ==
    (DayFromYear(date.year) + DaysBeforeMonth(date.year, date.month)
        + (date.day - 1) + 4) % 7

\* new Date(date.getFullYear(), date.getMonth() + 1, 0).getDate(): day 0 of the
\* next month is the last day of this one
getDaysInMonth(date) == DaysOfMonth(date.year, date.month)

\* a plausible slip: the weekday of the date itself, not of day 1 of its month
getDayOfDate(date) == GetDay(date)

getFirstDayOfMonth(date) == GetDay(NewDate(date.year, date.month, 1))

\* a plausible slip: toISOString() of local midnight without the offset
\* correction, which east of Greenwich prints the previous day
formatDateUTC(date) ==
    IF date.day > 1
    THEN date.year * 10000 + (date.month + 1) * 100 + (date.day - 1)
    ELSE LET p == NewDate(date.year, date.month - 1, 1)
         IN  p.year * 10000 + (p.month + 1) * 100 + DaysOfMonth(p.year, p.month)

\* The local-offset correction makes toISOString print the local calendar day:
\* "YYYY-MM-DD" with the month 1-based, read here as the number YYYYMMDD.
formatDateISO(date) == date.year * 10000 + (date.month + 1) * 100 + date.day

\* { day: null, dateStr: null }: null is modelled by 0, which is neither a day
\* of a month nor a date key
BlankSlot == [day |-> 0, dateStr |-> 0]

\* a plausible slip: `<=` for `<`, which pads a grid of five full weeks
PadsUpToOneWeek(remainingSlots) == remainingSlots <= 7

\* the `remainingSlots < 7` test of generateCalendarDays
PadsToSixWeeks(remainingSlots) == remainingSlots < 7

generateCalendarDays(date) ==
    LET year == date.year
        month == date.month
        daysInMonth == getDaysInMonth(date)
        firstDayOfWeek == getFirstDayOfMonth(date)
        leading == [i \in 1..firstDayOfWeek |-> BlankSlot]
        numbered == [i \in 1..daysInMonth |->
                        [day |-> i,
                         dateStr |-> formatDateISO(NewDate(year, month, i))]]
        days == leading \o numbered
        totalSlots == Len(days)
        remainingSlots == 42 - totalSlots
    IN  IF PadsToSixWeeks(remainingSlots)
        THEN days \o [i \in 1..remainingSlots |-> BlankSlot]
        ELSE days

\* const calendarDays = useMemo(() => generateCalendarDays(currentDate), ...)
calendarDays == generateCalendarDays(currentDate)

\* The grid is rendered with `grid grid-cols-7`: one row per 7 slots, the last
\* row possibly incomplete.
GridRows(days) == (Len(days) + 6) \div 7

\* the months of the calendar window
Months == {[year |-> y, month |-> m, day |-> 1] :
              y \in FirstYear..(FirstYear + NumYears - 1), m \in 0..11}

handlePrevMonth ==
    LET d == NewDate(currentDate.year, currentDate.month - 1, 1)
    IN  /\ ~effectPending
        /\ ~resetPending
        /\ d \in Months
        /\ currentDate' = d
        /\ UNCHANGED <<transactions, storage, effectPending, nextId, currentView,
                       lastOp>>
        /\ UNCHANGED modalVars

handleNextMonth ==
    LET d == NewDate(currentDate.year, currentDate.month + 1, 1)
    IN  /\ ~effectPending
        /\ ~resetPending
        /\ d \in Months
        /\ currentDate' = d
        /\ UNCHANGED <<transactions, storage, effectPending, nextId, currentView,
                       lastOp>>
        /\ UNCHANGED modalVars

-----------------------------------------------------------------------------
(* Exact arithmetic for the quotients of the metrics *)

RECURSIVE GCD(_, _)
GCD(a, b) == IF b = 0 THEN a ELSE GCD(b, a % b)

Abs(x) == IF x < 0 THEN 0 - x ELSE x

Sign(x) == IF x < 0 THEN 0 - 1 ELSE IF x > 0 THEN 1 ELSE 0

\* A number is a fraction [n, d] in lowest terms with d >= 0.  d = 0 holds the
\* values that are not finite: 1/0 is Infinity, -1/0 is -Infinity and 0/0 is NaN.
Frac(n, d) ==
    LET g == GCD(Abs(n), Abs(d))
        sgn == IF d < 0 THEN 0 - 1 ELSE 1
    IN  [n |-> (sgn * n) \div g, d |-> (sgn * d) \div g]

Zero == Frac(0, 1)
Infinity == [n |-> 1, d |-> 0]
NaN == [n |-> 0, d |-> 0]
IsFinite(x) == x.d # 0

\* JavaScript's n / d on two integers: dividing by zero does not throw
Div(n, d) == IF d = 0 THEN [n |-> Sign(n), d |-> 0] ELSE Frac(n, d)

\* JavaScript's x * k, k a positive integer
Times(x, k) == IF x.d = 0 THEN x ELSE Frac(x.n * k, x.d)

-----------------------------------------------------------------------------
(* App: the view filter and the dashboard metrics *)

\* a plausible slip: the filter keeps the other strategies (!== for ===)
FilterByOtherStrategy(txs, view) ==
    LET Keep(t) == t.strategy # view IN SelectSeq(txs, Keep)

\* txs.filter(t => t.strategy === view)
FilterByStrategy(txs, view) ==
    LET Keep(t) == t.strategy = view IN SelectSeq(txs, Keep)

\* Array.prototype.sort with (a, b) => time(b.date) - time(a.date): a stable
\* sort, latest date first.  InsertByDate puts t behind every record that is
\* not older than t.
RECURSIVE InsertByDate(_, _)
InsertByDate(sorted, t) ==
    IF sorted = <<>> THEN <<t>>
    ELSE IF Head(sorted).date >= t.date
         THEN <<Head(sorted)>> \o InsertByDate(Tail(sorted), t)
         ELSE <<t>> \o sorted

RECURSIVE SortByDateDesc(_)
SortByDateDesc(txs) ==
    IF txs = <<>> THEN <<>>
    ELSE InsertByDate(SortByDateDesc(SubSeq(txs, 1, Len(txs) - 1)), txs[Len(txs)])

FilterAndSort(txs, view) ==
    SortByDateDesc(IF view # "OVERVIEW" THEN FilterByStrategy(txs, view) ELSE txs)

filteredTransactions == FilterAndSort(transactions, currentView)

\* the running sums of stats before the first record
EmptySums ==
    [investedCapital |-> 0, netProfit |-> 0, tradeCount |-> 0,
     grossProfit |-> 0, grossLoss |-> 0, winCount |-> 0, lossCount |-> 0]

\* a plausible slip: a withdrawal is added to investedCapital
AddToSumsWithdrawalAdded(a, t) ==
    LET a1 == IF t.type \in {"DEPOSIT", "WITHDRAWAL"}
              THEN [a EXCEPT !.investedCapital = @ + t.amount] ELSE a
    IN  IF t.type = "TRADE"
        THEN LET a3 == [a1 EXCEPT !.netProfit = @ + t.amount,
                                  !.tradeCount = @ + 1]
             IN  IF t.amount > 0
                 THEN [a3 EXCEPT !.grossProfit = @ + t.amount,
                                 !.winCount = @ + 1]
                 ELSE IF t.amount < 0
                      THEN [a3 EXCEPT !.grossLoss = @ + Abs(t.amount),
                                      !.lossCount = @ + 1]
                      ELSE a3
        ELSE a1

\* a plausible slip: `else` for `else if (t.amount < 0)`, so that a zero trade
\* counts as a loss
AddToSumsZeroIsLoss(a, t) ==
    LET a1 == IF t.type = "DEPOSIT"
              THEN [a EXCEPT !.investedCapital = @ + t.amount] ELSE a
        a2 == IF t.type = "WITHDRAWAL"
              THEN [a1 EXCEPT !.investedCapital = @ - t.amount] ELSE a1
    IN  IF t.type = "TRADE"
        THEN LET a3 == [a2 EXCEPT !.netProfit = @ + t.amount,
                                  !.tradeCount = @ + 1]
             IN  IF t.amount > 0
                 THEN [a3 EXCEPT !.grossProfit = @ + t.amount,
                                 !.winCount = @ + 1]
                 ELSE [a3 EXCEPT !.grossLoss = @ + Abs(t.amount),
                                 !.lossCount = @ + 1]
        ELSE a2

\* the body of filteredTransactions.forEach(t => ...)
AddToSums(a, t) ==
    LET a1 == IF t.type = "DEPOSIT"
              THEN [a EXCEPT !.investedCapital = @ + t.amount] ELSE a
        a2 == IF t.type = "WITHDRAWAL"
              THEN [a1 EXCEPT !.investedCapital = @ - t.amount] ELSE a1
    IN  IF t.type = "TRADE"
        THEN LET a3 == [a2 EXCEPT !.netProfit = @ + t.amount,
                                  !.tradeCount = @ + 1]
             IN  IF t.amount > 0
                 THEN [a3 EXCEPT !.grossProfit = @ + t.amount,
                                 !.winCount = @ + 1]
                 ELSE IF t.amount < 0
                      THEN [a3 EXCEPT !.grossLoss = @ + Abs(t.amount),
                                      !.lossCount = @ + 1]
                      ELSE a3
        ELSE a2

RECURSIVE SumsOf(_)
SumsOf(txs) ==
    IF txs = <<>> THEN EmptySums
    ELSE AddToSums(SumsOf(SubSeq(txs, 1, Len(txs) - 1)), txs[Len(txs)])

\* a plausible slip: the quotient is taken without a test of grossLoss
ProfitFactorUnguarded(grossProfit, grossLoss) == Div(grossProfit, grossLoss)

\* const profitFactor = grossLoss > 0 ? grossProfit / grossLoss
\*                                    : (grossProfit > 0 ? Infinity : 0)
ProfitFactorOf(grossProfit, grossLoss) ==
    IF grossLoss > 0 THEN Div(grossProfit, grossLoss)
    ELSE IF grossProfit > 0 THEN Infinity ELSE Zero

\* a plausible slip: the quotient is taken without a test of investedCapital
RoiUnguarded(netProfit, investedCapital) ==
    Times(Div(netProfit, investedCapital), 100)

\* const roi = investedCapital !== 0 ? (netProfit / investedCapital) * 100 : 0
RoiOf(netProfit, investedCapital) ==
    IF investedCapital # 0 THEN Times(Div(netProfit, investedCapital), 100)
    ELSE Zero

\* const winRate = tradeCount > 0 ? (winCount / tradeCount) * 100 : 0
WinRateOf(winCount, tradeCount) ==
    IF tradeCount > 0 THEN Times(Div(winCount, tradeCount), 100) ELSE Zero

\* avgWin and avgLoss: count > 0 ? gross / count : 0
AverageOf(gross, count) == IF count > 0 THEN Div(gross, count) ELSE Zero

\* the record stats returns, computed from the running sums a
MetricsOf(a) ==
    [investedCapital |-> a.investedCapital,
     netProfit       |-> a.netProfit,
     portfolioValue  |-> a.investedCapital + a.netProfit,
     roi             |-> RoiOf(a.netProfit, a.investedCapital),
     winRate         |-> WinRateOf(a.winCount, a.tradeCount),
     tradeCount      |-> a.tradeCount,
     avgWin          |-> AverageOf(a.grossProfit, a.winCount),
     avgLoss         |-> AverageOf(a.grossLoss, a.lossCount),
     profitFactor    |-> ProfitFactorOf(a.grossProfit, a.grossLoss)]

\* the running sums of stats after the forEach
sums == SumsOf(filteredTransactions)

stats == MetricsOf(sums)

\* dayTx.filter(t => t.type === 'TRADE').reduce((sum, t) => sum + t.amount, 0)
RECURSIVE TradeSum(_)
TradeSum(txs) ==
    IF txs = <<>> THEN 0
    ELSE TradeSum(SubSeq(txs, 1, Len(txs) - 1))
            + (IF txs[Len(txs)].type = "TRADE" THEN txs[Len(txs)].amount ELSE 0)

\* a plausible slip: hasTrades is read off the day's P/L
DayStatsByPl(txs, dateStr) ==
    LET OnDay(t) == t.date = dateStr
        dayTx == SelectSeq(txs, OnDay)
        pl == TradeSum(dayTx)
    IN  [date |-> dateStr,
         pl |-> pl,
         transactions |-> dayTx,
         isProfit |-> pl > 0,
         isLoss |-> pl < 0,
         hasTrades |-> pl # 0]

DayStatsOf(txs, dateStr) ==
    LET OnDay(t) == t.date = dateStr
        dayTx == SelectSeq(txs, OnDay)
        pl == TradeSum(dayTx)
    IN  [date |-> dateStr,
         pl |-> pl,
         transactions |-> dayTx,
         isProfit |-> pl > 0,
         isLoss |-> pl < 0,
         hasTrades |-> \E i \in 1..Len(dayTx) : dayTx[i].type = "TRADE"]

getDayStats(dateStr) == DayStatsOf(filteredTransactions, dateStr)

\* StrategySelector: onClick={() => onChange(view.value)} with
\* onChange = setCurrentView.  The view is the form's initialView, a
\* dependency of its reset effect, which does nothing while the form is closed.
setCurrentView(view) ==
    /\ ~effectPending
    /\ ~resetPending
    /\ currentView' = view
    /\ resetPending' = (resetPending \/ (isModalOpen /\ view # currentView))
    /\ UNCHANGED <<transactions, storage, effectPending, nextId, currentDate,
                   lastOp, isModalOpen, modalMode, selectedDateStr, form>>

-----------------------------------------------------------------------------
(* App: the transaction list, localStorage and delete-by-id *)

\* The ids crypto.randomUUID hands out, in order: each is new, and none is a
\* string a stored record carries.
UUIDS == <<"uuid-1", "uuid-2", "uuid-3", "uuid-4", "uuid-5", "uuid-6">>

\* generateId(), after n earlier calls
generateId(n) == UUIDS[n + 1]

\* The value of the localStorage slot:
\*   kind "absent"  - getItem returns null (or the empty string)
\*   kind "garbage" - text JSON.parse throws on
\*   kind "value"   - JSON that is not an array
\*   kind "array"   - a JSON array of items
\* An item is [json, id, date, type, strategy, amount, note]; json is "object"
\* or "null", and id is [k, v]: k = "str" (the string v), "num" (the number
\* whose decimal form is v) or "none" (missing, or falsy).
StoredAbsent == [kind |-> "absent", items |-> <<>>]
StoredGarbage == [kind |-> "garbage", items |-> <<>>]
StoredValue == [kind |-> "value", items |-> <<>>]
StoredArray(items) == [kind |-> "array", items |-> items]

\* The amounts that are no finite number: NaN (what parseFloat returns for
\* text that starts with no number) and null (what JSON has in its place).
\* Both lie outside the amounts of the ledger.
NaNAmount == 0 - 1000001
NullAmount == 0 - 1000002

\* Number.isFinite
IsFiniteAmount(a) == a # NaNAmount /\ a # NullAmount

\* JSON.stringify of a number: NaN is written as null
JsonNumber(a) == IF a = NaNAmount THEN NullAmount ELSE a

\* JSON.stringify of one Transaction
ItemOf(t) ==
    [json |-> "object", id |-> [k |-> "str", v |-> t.id], date |-> t.date,
     type |-> t.type, strategy |-> t.strategy, amount |-> JsonNumber(t.amount),
     note |-> t.note]

\* JSON.stringify(transactions)
Serialize(txs) == StoredArray([i \in 1..Len(txs) |-> ItemOf(txs[i])])

\* { ...t, id: t.id ? String(t.id) : generateId() }, with n ids handed out
MigrateItem(item, n) ==
    [id |-> IF item.id.k = "none" THEN generateId(n) ELSE item.id.v,
     date |-> item.date, type |-> item.type, strategy |-> item.strategy,
     amount |-> item.amount, note |-> item.note]

\* parsed.map(...): the list, and the number of ids handed out
RECURSIVE MigrateAll(_, _)
MigrateAll(items, n) ==
    IF items = <<>> THEN [list |-> <<>>, next |-> n]
    ELSE LET r == MigrateAll(SubSeq(items, 1, Len(items) - 1), n)
             item == items[Len(items)]
         IN  [list |-> Append(r.list, MigrateItem(item, r.next)),
              next |-> IF item.id.k = "none" THEN r.next + 1 ELSE r.next]

\* The initialiser of the transactions state.  Reading t.id of a null item
\* throws, and the catch returns the empty list.
Load(stored) ==
    IF stored.kind = "array"
       /\ \A i \in 1..Len(stored.items) : stored.items[i].json = "object"
    THEN MigrateAll(stored.items, 0)
    ELSE [list |-> <<>>, next |-> 0]

\* a plausible slip: an empty dependency list, so that the effect writes after
\* the first render only
PersistEffectOnMountOnly ==
    /\ effectPending
    /\ storage' = IF lastOp.op = "mount" THEN Serialize(transactions)
                  ELSE storage
    /\ effectPending' = FALSE
    /\ lastOp' = [op |-> "persist", id |-> "", found |-> FALSE]
    /\ UNCHANGED <<transactions, nextId, currentView, currentDate>>
    /\ UNCHANGED modalVars

\* useEffect(() => localStorage.setItem(..., JSON.stringify(transactions)),
\*           [transactions]); React runs it after the render that follows a
\* change of the list, before the next event is handled.
PersistEffect ==
    /\ effectPending
    /\ storage' = Serialize(transactions)
    /\ effectPending' = FALSE
    /\ lastOp' = [op |-> "persist", id |-> "", found |-> FALSE]
    /\ UNCHANGED <<transactions, nextId, currentView, currentDate>>
    /\ UNCHANGED modalVars

\* a plausible slip: [newTx, ...prev], which puts the new record first
handleSaveTransactionPrepends(txData) ==
    /\ ~effectPending
    /\ Len(transactions) < MaxTx
    /\ nextId < MaxIds
    /\ LET newTx == [id |-> generateId(nextId), date |-> txData.date,
                     type |-> txData.type, strategy |-> txData.strategy,
                     amount |-> txData.amount, note |-> txData.note]
       IN  transactions' = <<newTx>> \o transactions
    /\ nextId' = nextId + 1
    /\ effectPending' = TRUE
    /\ lastOp' = [op |-> "save", id |-> generateId(nextId), found |-> FALSE]
    /\ UNCHANGED <<storage, currentView, currentDate>>

\* handleSaveTransaction(txData), the form's onSave.  It leaves the state of
\* the form to its caller.
handleSaveTransaction(txData) ==
    /\ ~effectPending
    /\ Len(transactions) < MaxTx
    /\ nextId < MaxIds
    /\ LET newTx == [id |-> generateId(nextId), date |-> txData.date,
                     type |-> txData.type, strategy |-> txData.strategy,
                     amount |-> txData.amount, note |-> txData.note]
       IN  transactions' = Append(transactions, newTx)
    /\ nextId' = nextId + 1
    /\ effectPending' = TRUE
    /\ lastOp' = [op |-> "save", id |-> generateId(nextId), found |-> FALSE]
    /\ UNCHANGED <<storage, currentView, currentDate>>

HasId(txs, id) == \E i \in 1..Len(txs) : txs[i].id = id

\* a plausible slip: splice(findIndex(...), 1), which drops the last record
\* when findIndex returns -1
RemoveBySplice(txs, safeId) ==
    LET hits == {i \in 1..Len(txs) : txs[i].id = safeId}
        at == IF hits = {} THEN Len(txs)
              ELSE CHOOSE i \in hits : \A j \in hits : i <= j
    IN  [i \in 1..(IF txs = <<>> THEN 0 ELSE Len(txs) - 1) |->
            IF i < at THEN txs[i] ELSE txs[i + 1]]

\* prev.filter(t => String(t.id) !== safeId)
RemoveById(txs, safeId) ==
    LET Keep(t) == t.id # safeId IN SelectSeq(txs, Keep)

\* window.deleteTransaction(id)
deleteTransaction(id) ==
    /\ ~effectPending
    /\ ~resetPending
    /\ LET newData == RemoveById(transactions, id)
       IN  /\ storage' = Serialize(newData)
           /\ transactions' = newData
    /\ effectPending' = TRUE
    /\ lastOp' = [op |-> "delete", id |-> id, found |-> HasId(transactions, id)]
    /\ UNCHANGED <<nextId, currentView, currentDate>>
    /\ UNCHANGED modalVars

-----------------------------------------------------------------------------
(* Inputs *)

\* the day the application is opened, and the date keys records carry
Today == [year |-> FirstYear, month |-> 0, day |-> 15]
DateKeys == {formatDateISO(NewDate(FirstYear, 0, d)) : d \in {14, 15}}
TransferDay == formatDateISO(NewDate(FirstYear, 0, 14))
\* a date key no record carries
QuietDay == formatDateISO(NewDate(FirstYear, 0, 16))

\* ids of stored records, by position in the stored array
StoredIds == <<"1", "2", "3", "4", "5">>

\* The records the ledger is checked on.  A trade carries a signed amount and
\* either date; a deposit or a withdrawal a positive amount and the first date.
TradeAmounts == {0 - 1, 0, 2}
TransferAmounts == {1}
LedgerStrategies == {"DAY_TRADE", "SWING"}

LedgerData ==
    [date : DateKeys, type : {"TRADE"}, strategy : LedgerStrategies,
     amount : TradeAmounts, note : {""}]
    \cup
    [date : {TransferDay}, type : {"DEPOSIT", "WITHDRAWAL"},
     strategy : LedgerStrategies, amount : TransferAmounts, note : {""}]

StoredItem(data, id) ==
    [json |-> "object", id |-> id, date |-> data.date, type |-> data.type,
     strategy |-> data.strategy, amount |-> data.amount, note |-> data.note]

\* a stored array of n records of LedgerData, ids "1".."n"
LedgerStored(f) ==
    StoredArray([i \in DOMAIN f |->
                    StoredItem(f[i], [k |-> "str", v |-> StoredIds[i]])])

Mounted(stored, date) ==
    /\ storage = stored
    /\ transactions = Load(stored).list
    /\ nextId = Load(stored).next
    /\ effectPending = TRUE
    /\ currentView = "OVERVIEW"
    /\ currentDate = date
    /\ lastOp = [op |-> "mount", id |-> "", found |-> FALSE]
    /\ isModalOpen = FALSE
    /\ modalMode = "TRADE"
    /\ selectedDateStr = 0
    /\ form = [type |-> "TRADE", strategy |-> "DAY_TRADE", amount |-> <<>>,
               note |-> ""]
    /\ resetPending = FALSE

-----------------------------------------------------------------------------
(* App and TradeModal: the transaction form *)

\* openModal(dateStr, mode).  isOpen and initialMode are dependencies of the
\* form's reset effect: it is due when either changes.
openModal(dateStr, mode) ==
    /\ ~effectPending
    /\ ~resetPending
    /\ selectedDateStr' = dateStr
    /\ modalMode' = mode
    /\ isModalOpen' = TRUE
    /\ resetPending' = (~isModalOpen \/ modalMode # mode)
    /\ UNCHANGED <<transactions, storage, effectPending, nextId, currentView,
                   currentDate, lastOp, form>>

\* handleDayClick(dateStr)
handleDayClick(dateStr) == openModal(dateStr, "TRADE")

\* handleGlobalAction(mode): the form opens on formatDateISO(new Date())
handleGlobalAction(mode) == openModal(formatDateISO(Today), mode)

\* onClose={() => setIsModalOpen(false)}.  The reset effect that follows does
\* nothing, the form being closed.
onClose ==
    /\ ~effectPending
    /\ ~resetPending
    /\ isModalOpen
    /\ isModalOpen' = FALSE
    /\ UNCHANGED <<transactions, storage, effectPending, nextId, currentView,
                   currentDate, lastOp, modalMode, selectedDateStr, form,
                   resetPending>>

\* the form after the reset effect has run on an open form
ResetForm ==
    [type |-> IF modalMode = "TRANSFER" THEN "DEPOSIT" ELSE "TRADE",
     strategy |-> IF currentView # "OVERVIEW" THEN currentView ELSE "DAY_TRADE",
     amount |-> <<>>, note |-> ""]

\* a plausible slip: the effect resets the inputs and leaves the type alone
ResetEffectKeepsType ==
    /\ resetPending
    /\ form' = IF isModalOpen THEN [ResetForm EXCEPT !.type = form.type]
               ELSE form
    /\ resetPending' = FALSE
    /\ UNCHANGED <<transactions, storage, effectPending, nextId, currentView,
                   currentDate, lastOp, isModalOpen, modalMode, selectedDateStr>>

\* useEffect(() => { if (isOpen) { ... } }, [isOpen, initialView, initialMode]);
\* React runs it after the render that follows a change of a dependency,
\* before the next event is handled.
ResetEffect ==
    /\ resetPending
    /\ form' = IF isModalOpen THEN ResetForm ELSE form
    /\ resetPending' = FALSE
    /\ UNCHANGED <<transactions, storage, effectPending, nextId, currentView,
                   currentDate, lastOp, isModalOpen, modalMode, selectedDateStr>>

\* if (!isOpen || !selectedDate) return null: the form is on the page
FormShown == isModalOpen /\ selectedDateStr # 0

\* a handler of the form: it runs on a shown form, after the effects
FormHandler(newForm) ==
    /\ ~effectPending
    /\ ~resetPending
    /\ FormShown
    /\ form' = newForm
    /\ UNCHANGED <<transactions, storage, effectPending, nextId, currentView,
                   currentDate, lastOp, isModalOpen, modalMode, selectedDateStr,
                   resetPending>>

\* the Deposit and Withdraw buttons, rendered when initialMode === 'TRANSFER'
setType(t) ==
    /\ modalMode = "TRANSFER"
    /\ FormHandler([form EXCEPT !.type = t])

\* the amount input and the note input
setAmount(text) == FormHandler([form EXCEPT !.amount = text])
setNote(text) == FormHandler([form EXCEPT !.note = text])

\* A text is a sequence of characters.
IsDigit(c) == c \in {"0", "1", "2", "3", "4", "5", "6", "7", "8", "9"}
DigitValue(c) ==
    CASE c = "0" -> 0 [] c = "1" -> 1 [] c = "2" -> 2 [] c = "3" -> 3
      [] c = "4" -> 4 [] c = "5" -> 5 [] c = "6" -> 6 [] c = "7" -> 7
      [] c = "8" -> 8 [] c = "9" -> 9

\* the longest prefix of digits of a text: its value and its length
RECURSIVE DigitsPrefix(_, _, _)
DigitsPrefix(text, value, count) ==
    IF text = <<>> \/ ~IsDigit(Head(text)) THEN [value |-> value, count |-> count]
    ELSE DigitsPrefix(Tail(text), 10 * value + DigitValue(Head(text)), count + 1)

\* parseFloat(text), on texts of a sign and digits: the number the text starts
\* with, NaN when it starts with none
parseFloat(text) ==
    LET signed == text # <<>> /\ Head(text) \in {"-", "+"}
        p == DigitsPrefix(IF signed THEN Tail(text) ELSE text, 0, 0)
    IN  IF p.count = 0 THEN NaNAmount
        ELSE IF Head(text) = "-" THEN 0 - p.value
        ELSE p.value

\* handleSubmit: if (!amount) return; onSave({...}); setAmount(''); setNote('')
handleSubmit ==
    /\ ~effectPending
    /\ ~resetPending
    /\ FormShown
    /\ IF form.amount = <<>> THEN UNCHANGED vars
       ELSE /\ handleSaveTransaction(
                   [date |-> selectedDateStr, type |-> form.type,
                    strategy |-> form.strategy,
                    amount |-> parseFloat(form.amount), note |-> form.note])
            /\ form' = [form EXCEPT !.amount = <<>>, !.note = ""]
            /\ UNCHANGED <<isModalOpen, modalMode, selectedDateStr,
                           resetPending>>

-----------------------------------------------------------------------------
(* The transaction store: load, add, delete and the persistence effect *)

\* what a form submission hands to handleSaveTransaction
AppData ==
    [date : {TransferDay}, type : {"TRADE", "DEPOSIT"},
     strategy : {"DAY_TRADE"}, amount : {1}, note : {""}]

\* the ids a stored item may carry: none, a number or a string
RawIds ==
    {[k |-> "none", v |-> ""], [k |-> "num", v |-> StoredIds[1]],
     [k |-> "str", v |-> StoredIds[1]], [k |-> "str", v |-> StoredIds[2]]}

NullItem ==
    [json |-> "null", id |-> [k |-> "none", v |-> ""], date |-> 0,
     type |-> "", strategy |-> "", amount |-> 0, note |-> ""]

\* the item {"amount": null}: an object with none of the fields of a
\* Transaction
InvalidItem ==
    [json |-> "object", id |-> [k |-> "none", v |-> ""], date |-> 0,
     type |-> "", strategy |-> "", amount |-> NullAmount, note |-> ""]

RawItems == {StoredItem(data, id) : data \in AppData, id \in RawIds}
                \cup {NullItem, InvalidItem}

\* what the slot may hold when the application is opened
StoredValues ==
    {StoredAbsent, StoredGarbage, StoredValue}
        \cup UNION {{StoredArray(f) : f \in [1..n -> RawItems]} : n \in 0..MaxStored}

\* the ids delete may be called with: those of records, and one of no record
CandidateIds ==
    {StoredIds[1], StoredIds[2]} \cup {UUIDS[i] : i \in 1..MaxIds}
        \cup {"no-such-id"}

Init == \E stored \in StoredValues : Mounted(stored, Today)

Next ==
    \/ PersistEffect
    \/ \E txData \in AppData :
           handleSaveTransaction(txData) /\ UNCHANGED modalVars
    \/ \E id \in CandidateIds : deleteTransaction(id)

Spec == Init /\ [][Next]_vars

-----------------------------------------------------------------------------
(* The ledger: the metrics of every stored list under every view *)

InitLedger ==
    \E n \in 0..MaxTx : \E f \in [1..n -> LedgerData] :
        Mounted(LedgerStored(f), Today)

NextLedger ==
    \/ PersistEffect
    \/ \E view \in ViewType : setCurrentView(view)

SpecLedger == InitLedger /\ [][NextLedger]_vars

-----------------------------------------------------------------------------
(* The calendar: every month of the window *)

InitCalendar ==
    \E m \in Months : \E d \in {1, 10} :
        Mounted(StoredAbsent, NewDate(m.year, m.month, d))

NextCalendar ==
    \/ PersistEffect
    \/ handlePrevMonth
    \/ handleNextMonth

SpecCalendar == InitCalendar /\ [][NextCalendar]_vars

-----------------------------------------------------------------------------
(* The form: opened from the calendar and the action buttons, filled in and  *)
(* submitted.  The strategy of the form is left at the value the reset       *)
(* effect gives it.                                                          *)

\* what the amount input may hold: nothing, a number, a negative number, text
AmountTexts == {<<>>, <<"1">>, <<"-", "1">>, <<"a", "b", "c">>}
\* the notes typed
NoteTexts == {"memo"}

InitModal == Mounted(StoredAbsent, Today)

NextModal ==
    \/ PersistEffect
    \/ ResetEffect
    \/ \E mode \in {"TRADE", "TRANSFER"} : handleGlobalAction(mode)
    \/ \E dateStr \in {TransferDay} : handleDayClick(dateStr)
    \/ onClose
    \/ \E t \in {"DEPOSIT", "WITHDRAWAL"} : setType(t)
    \/ \E text \in AmountTexts : setAmount(text)
    \/ \E text \in NoteTexts : setNote(text)
    \/ handleSubmit
    \/ \E i \in 1..MaxIds : deleteTransaction(generateId(i - 1))

SpecModal == InitModal /\ [][NextModal]_vars

-----------------------------------------------------------------------------
(* Reference quantities: sums and counts over positions of a list, written   *)
(* without the aggregator's loop                                             *)

RECURSIVE AmountSum(_, _)
AmountSum(txs, S) ==
    IF S = {} THEN 0
    ELSE LET i == CHOOSE j \in S : TRUE
         IN  txs[i].amount + AmountSum(txs, S \ {i})

OfType(txs, type) == {i \in 1..Len(txs) : txs[i].type = type}
Wins(txs) == {i \in OfType(txs, "TRADE") : txs[i].amount > 0}
Losses(txs) == {i \in OfType(txs, "TRADE") : txs[i].amount < 0}
Flats(txs) == {i \in OfType(txs, "TRADE") : txs[i].amount = 0}

\* the fraction x is the quotient n / d
IsQuotient(x, n, d) == x.d # 0 /\ x.n * d = n * x.d

\* the positions of `transactions` the view shows
Shown(view) ==
    {i \in 1..Len(transactions) :
        view = "OVERVIEW" \/ transactions[i].strategy = view}

-----------------------------------------------------------------------------
(* Claims on the ledger aggregator, checked under SpecLedger *)

\* C1: for every list the aggregator is given, investedCapital is the sum of
\* the DEPOSIT amounts minus the sum of the WITHDRAWAL amounts, netProfit is
\* the signed sum of the TRADE amounts and portfolioValue is their sum; a
\* TRADE record leaves investedCapital as it was, and a DEPOSIT or WITHDRAWAL
\* record leaves netProfit and tradeCount as they were.
C1_PortfolioValue ==
    LET txs == filteredTransactions
        sm == SumsOf(txs)
        st == MetricsOf(sm)
        deposits == AmountSum(txs, OfType(txs, "DEPOSIT"))
        withdrawals == AmountSum(txs, OfType(txs, "WITHDRAWAL"))
        trades == AmountSum(txs, OfType(txs, "TRADE"))
    IN  /\ st.investedCapital = deposits - withdrawals
        /\ st.netProfit = trades
        /\ st.portfolioValue = (deposits - withdrawals) + trades
        /\ st.tradeCount = Cardinality(OfType(txs, "TRADE"))
        /\ \A k \in 1..Len(txs) :
              LET before == SumsOf(SubSeq(txs, 1, k - 1))
                  after == AddToSums(before, txs[k])
              IN  /\ txs[k].type = "TRADE" =>
                        after.investedCapital = before.investedCapital
                  /\ txs[k].type \in {"DEPOSIT", "WITHDRAWAL"} =>
                        /\ after.netProfit = before.netProfit
                        /\ after.tradeCount = before.tradeCount

\* a deposit, a withdrawal and a trade have been aggregated together
C1_Witness ==
    /\ ~effectPending
    /\ OfType(filteredTransactions, "DEPOSIT") # {}
    /\ OfType(filteredTransactions, "WITHDRAWAL") # {}
    /\ stats.netProfit # 0
    /\ stats.portfolioValue # stats.investedCapital

\* C2: a TRADE of amount zero counts in tradeCount and in nothing else:
\* winCount is the number of TRADEs with amount > 0, lossCount the number with
\* amount < 0, the gross sums add only those, and winCount + lossCount is
\* tradeCount minus the number of zero-amount TRADEs; a single zero TRADE
\* gives tradeCount = 1 and winRate = 0.
C2_ZeroTrade ==
    LET txs == filteredTransactions
        sm == SumsOf(txs)
        st == MetricsOf(sm)
    IN  /\ sm.winCount = Cardinality(Wins(txs))
        /\ sm.lossCount = Cardinality(Losses(txs))
        /\ sm.grossProfit = AmountSum(txs, Wins(txs))
        /\ sm.grossLoss = 0 - AmountSum(txs, Losses(txs))
        /\ sm.tradeCount = Cardinality(OfType(txs, "TRADE"))
        /\ sm.winCount + sm.lossCount
              = sm.tradeCount - Cardinality(Flats(txs))
        /\ (Len(txs) = 1 /\ Flats(txs) # {}) =>
              /\ st.tradeCount = 1
              /\ sm.winCount = 0
              /\ sm.lossCount = 0
              /\ st.winRate = Zero

\* a zero-amount trade has been aggregated beside a winning one
C2_Witness ==
    /\ Flats(filteredTransactions) # {}
    /\ Wins(filteredTransactions) # {}
    /\ stats.tradeCount > sums.winCount + sums.lossCount

\* C3: profitFactor is grossProfit / grossLoss when grossLoss > 0; when
\* grossLoss = 0 it is +infinity if grossProfit > 0 and 0 if grossProfit = 0.
C3_ProfitFactor ==
    LET txs == filteredTransactions
        sm == SumsOf(txs)
        st == MetricsOf(sm)
        grossProfit == AmountSum(txs, Wins(txs))
        grossLoss == 0 - AmountSum(txs, Losses(txs))
    IN  /\ grossLoss > 0 =>
              IsQuotient(st.profitFactor, grossProfit, grossLoss)
        /\ (grossLoss = 0 /\ grossProfit > 0) => st.profitFactor = Infinity
        /\ (grossLoss = 0 /\ grossProfit = 0) => st.profitFactor = Zero
        /\ OfType(txs, "TRADE") = {} => st.profitFactor = Zero

\* two wins and a loss have been aggregated into a quotient
C3_Witness ==
    /\ sums.grossLoss > 0
    /\ sums.winCount = 2
    /\ sums.grossProfit > sums.grossLoss
    /\ stats.profitFactor = Frac(sums.grossProfit, sums.grossLoss)

\* C4: no zero denominator yields an undefined value: roi = 0 whenever
\* investedCapital = 0, winRate = 0 whenever tradeCount = 0, avgWin = 0
\* whenever there is no winning trade, avgLoss = 0 whenever there is no
\* losing trade, and roi, winRate, avgWin and avgLoss are always finite; for
\* the empty list investedCapital, netProfit, roi, winRate, profitFactor and
\* tradeCount are all 0.
C4_ZeroDenominators ==
    LET txs == filteredTransactions
        sm == SumsOf(txs)
        st == MetricsOf(sm)
        invested == AmountSum(txs, OfType(txs, "DEPOSIT"))
                        - AmountSum(txs, OfType(txs, "WITHDRAWAL"))
    IN  /\ invested = 0 => st.roi = Zero
        /\ OfType(txs, "TRADE") = {} => st.winRate = Zero
        /\ Wins(txs) = {} => st.avgWin = Zero
        /\ Losses(txs) = {} => st.avgLoss = Zero
        /\ IsFinite(st.roi) /\ IsFinite(st.winRate)
        /\ IsFinite(st.avgWin) /\ IsFinite(st.avgLoss)
        /\ st.profitFactor # NaN
        /\ txs = <<>> =>
              /\ st.investedCapital = 0
              /\ st.netProfit = 0
              /\ st.roi = Zero
              /\ st.winRate = Zero
              /\ st.profitFactor = Zero
              /\ st.tradeCount = 0

\* deposits equal withdrawals while the trades made a profit or a loss
C4_Witness ==
    /\ OfType(filteredTransactions, "DEPOSIT") # {}
    /\ stats.investedCapital = 0
    /\ stats.netProfit # 0
    /\ stats.roi = Zero

C9_DayStats ==
    LET txs == filteredTransactions
    IN  \A d \in DateKeys \cup {QuietDay} :
            LET ds == DayStatsOf(txs, d)
                Sd == {i \in 1..Len(txs) : txs[i].date = d}
                Td == {i \in Sd : txs[i].type = "TRADE"}
                pl == AmountSum(txs, Td)
            IN  /\ ds.date = d
                /\ ds.pl = pl
                /\ ds.isProfit = (pl > 0)
                /\ ds.isLoss = (pl < 0)
                /\ ds.hasTrades = (Td # {})
                /\ ~(ds.isProfit /\ ds.isLoss)
                /\ (Td # {} /\ pl = 0) =>
                      ds.hasTrades /\ ~ds.isProfit /\ ~ds.isLoss
                /\ (Sd # {} /\ Td = {}) => ~ds.hasTrades /\ ds.pl = 0

\* a day whose winning and losing trades net to exactly 0
C9_Witness ==
    \E d \in DateKeys :
        LET ds == getDayStats(d)
        IN  /\ Wins(ds.transactions) # {}
            /\ Losses(ds.transactions) # {}
            /\ ds.pl = 0
            /\ ds.hasTrades
            /\ ~ds.isProfit /\ ~ds.isLoss

-----------------------------------------------------------------------------
(* Claims on the calendar projection, checked under SpecCalendar *)

\* the weekday index of day 1 of the month shown, and its number of days
FirstWeekday == GetDay(NewDate(currentDate.year, currentDate.month, 1))
MonthLength == DaysOfMonth(currentDate.year, currentDate.month)
\* the trailing slots needed to fill six weeks
NeededPadding == 42 - (FirstWeekday + MonthLength)
HasTrailingPadding == Len(calendarDays) > FirstWeekday + MonthLength

\* C6: for a month whose day 1 has weekday index w and which has n days,
\* generateCalendarDays returns w blank slots, then one slot per day 1..n in
\* ascending order, each with the date key of that day of that month, then
\* 42-(w+n) blank slots if 42-(w+n) < 7 and none otherwise; a 30-day month
\* starting on Sunday has 30 slots, a 28-day February starting on Thursday
\* has 32, and the slot of day d is the (w+d)-th.
C6_CalendarSlots ==
    LET w == FirstWeekday
        n == MonthLength
        days == calendarDays
        pad == IF NeededPadding < 7 THEN NeededPadding ELSE 0
    IN  /\ w \in 0..6 /\ n \in 28..31
        /\ Len(days) = w + n + pad
        /\ \A i \in 1..w : days[i] = BlankSlot
        /\ \A d \in 1..n :
              days[w + d] =
                  [day |-> d,
                   dateStr |-> currentDate.year * 10000
                                  + (currentDate.month + 1) * 100 + d]
        /\ \A i \in (w + n + 1)..Len(days) : days[i] = BlankSlot
        /\ (w = 0 /\ n = 30) => Len(days) = 30
        /\ (w = 4 /\ n = 28) => Len(days) = 32

\* a 28-day February that starts on a Thursday has been projected
C6_Witness ==
    /\ FirstWeekday = 4 /\ MonthLength = 28
    /\ currentDate.month = 1
    /\ Len(calendarDays) = 32
    /\ calendarDays[5].day = 1
    /\ calendarDays[4] = BlankSlot

\* C7 as stated: 42 entries unless the trailing padding needed to reach 42 is
\* fewer than 7 slots, and then no trailing padding and fewer than 42 entries.
C7_AsStated ==
    IF NeededPadding < 7
    THEN ~HasTrailingPadding /\ Len(calendarDays) < 42
    ELSE Len(calendarDays) = 42

\* C7, amended: the sequence has exactly 42 entries when the trailing padding
\* needed to reach 42 is fewer than 7 slots; when 7 or more would be needed the
\* trailing padding is omitted entirely and the sequence is shorter than 42.
C7_SlotCount ==
    IF NeededPadding < 7
    THEN Len(calendarDays) = 42 /\ HasTrailingPadding
    ELSE /\ ~HasTrailingPadding
         /\ Len(calendarDays) = FirstWeekday + MonthLength
         /\ Len(calendarDays) < 42

\* a month of five full weeks: exactly 7 slots short of 42, and left unpadded
C7_Witness ==
    /\ NeededPadding = 7
    /\ Len(calendarDays) = 35
    /\ calendarDays[35].day = MonthLength

\* C8 as stated: the grid has 5 or 6 rows, and trailing padding only completes
\* a 6th row that holds a numbered day.
C8_AsStated ==
    /\ GridRows(calendarDays) \in {5, 6}
    /\ HasTrailingPadding =>
          /\ FirstWeekday + MonthLength > 35
          /\ GridRows(calendarDays) = 6

\* C8, amended: the grid has 4, 5 or 6 rows, 4 exactly for a 28-day month that
\* starts on Sunday, and trailing padding is added only to complete a 6th row
\* that already holds a numbered day.
C8_GridRows ==
    /\ GridRows(calendarDays) \in {4, 5, 6}
    /\ GridRows(calendarDays) = 4 <=> (FirstWeekday = 0 /\ MonthLength = 28)
    /\ HasTrailingPadding =>
          /\ FirstWeekday + MonthLength > 35
          /\ GridRows(calendarDays) = 6
          /\ Len(calendarDays) = 42

\* a February of exactly four weeks has been laid out
C8_Witness ==
    /\ currentDate.month = 1
    /\ FirstWeekday = 0 /\ MonthLength = 28
    /\ Len(calendarDays) = 28
    /\ GridRows(calendarDays) = 4

-----------------------------------------------------------------------------
(* Claims on the transaction store, checked under Spec *)

\* C10: delete-by-id is idempotent and safe on absent ids: a delete of an id
\* no record carries leaves the list as it was, in length, contents and
\* order; after any delete no record carries the id, so that deleting the
\* same id again yields the same list.
C10_DeleteIdempotent ==
    [][\A id \in CandidateIds :
          deleteTransaction(id) =>
              /\ ~HasId(transactions, id) => transactions' = transactions
              /\ ~HasId(transactions', id)
              /\ RemoveById(transactions', id) = transactions'
              /\ \A i \in 1..Len(transactions') :
                    \E j \in 1..Len(transactions) :
                        transactions'[i] = transactions[j]]_vars

\* a delete of an id that no record carries has run on a list of two records
C10_Witness ==
    /\ lastOp.op = "delete"
    /\ ~lastOp.found
    /\ Len(transactions) = 2
    /\ effectPending
    /\ storage = Serialize(transactions)

\* the positions of the records of txs that do not carry the id, and the k-th
\* of a set of positions
KeptPositions(txs, id) == {i \in 1..Len(txs) : txs[i].id # id}
NthOf(S, k) == CHOOSE i \in S : Cardinality({j \in S : j < i}) = k - 1

\* C11: transactions are immutable once created: an add appends one new
\* record and leaves every earlier record as it was, in place; a delete
\* removes the records that carry the given id and no other, and the records
\* that remain keep their fields and their relative order; the persistence
\* effect leaves the list alone.
C11_FrameOfAddAndDelete ==
    [][/\ \A txData \in AppData :
             handleSaveTransaction(txData) =>
                 /\ Len(transactions') = Len(transactions) + 1
                 /\ SubSeq(transactions', 1, Len(transactions)) = transactions
                 /\ LET t == transactions'[Len(transactions')]
                    IN  /\ ~HasId(transactions, t.id)
                        /\ t.date = txData.date /\ t.type = txData.type
                        /\ t.strategy = txData.strategy
                        /\ t.amount = txData.amount /\ t.note = txData.note
       /\ \A id \in CandidateIds :
             deleteTransaction(id) =>
                 LET kept == KeptPositions(transactions, id)
                 IN  /\ Len(transactions') = Cardinality(kept)
                     /\ \A k \in 1..Len(transactions') :
                           transactions'[k] = transactions[NthOf(kept, k)]
       /\ PersistEffect => transactions' = transactions]_vars

\* a delete has removed a record from a list of three, and an add has
\* appended the record with the first generated id to a list of one
C11_Witness ==
    /\ lastOp.op = "delete"
    /\ lastOp.found
    /\ Len(transactions) = 2
    /\ transactions[2].id = generateId(0)
    /\ transactions[1].id = StoredIds[2]

\* C12: once the persistence effect of the last mutation has run, the slot
\* holds the serialization of exactly the current list; it holds it already
\* after the write a delete does itself, which the effect then repeats.
C12_StoredIsCurrent ==
    (~effectPending \/ lastOp.op = "delete")
        => storage = Serialize(transactions)

\* two ids were handed out, the record with the first has been deleted, and
\* the effect has run after the delete's own write
C12_Witness ==
    /\ ~effectPending
    /\ lastOp.op = "persist"
    /\ nextId = 2
    /\ Len(transactions) = 1
    /\ transactions[1].id = generateId(1)
    /\ storage = Serialize(transactions)

\* a stored item that is a transaction record: an object whose date, type,
\* strategy and amount are those of a Transaction (types.ts)
IsRecordItem(item) ==
    /\ item.json = "object"
    /\ item.date # 0
    /\ item.type \in TransactionType
    /\ item.strategy \in StrategyType
    /\ IsFiniteAmount(item.amount)

\* the slot holds no list of transaction records
IsDamaged(stored) ==
    \/ stored.kind # "array"
    \/ \E i \in 1..Len(stored.items) : ~IsRecordItem(stored.items[i])

\* C13: when the slot is absent, is not parseable, parses to a value that is
\* no array, or parses to an array with an entry that is no transaction
\* record, the initial transaction list is empty.
C13_AsStated ==
    (lastOp.op = "mount" /\ IsDamaged(storage)) => transactions = <<>>

\* C16: in every reachable state no two records of the list carry the same
\* id, whatever ids the loaded records carried.
C16_AsStated ==
    \A i, j \in 1..Len(transactions) :
        i # j => transactions[i].id # transactions[j].id

-----------------------------------------------------------------------------
(* Claims on the transaction form, checked under SpecModal *)

C17_AsStated ==
    \A i \in 1..Len(transactions) :
        LET t == transactions[i]
            c == AddToSums(EmptySums, t).investedCapital
        IN  (t.type \in {"DEPOSIT", "WITHDRAWAL"} /\ IsFiniteAmount(t.amount))
                => /\ t.amount >= 0
                   /\ t.type = "DEPOSIT" => c >= 0
                   /\ t.type = "WITHDRAWAL" => c <= 0

\* C18: a transaction saved while the form is open in TRADE mode has type
\* TRADE, and one saved while it is open in TRANSFER mode has type DEPOSIT or
\* WITHDRAWAL, whatever type an earlier opening left in the form.
C18_TypeFollowsMode ==
    [][(handleSubmit /\ transactions' # transactions) =>
          LET t == transactions'[Len(transactions')]
          IN  /\ Len(transactions') = Len(transactions) + 1
              /\ modalMode = "TRADE" => t.type = "TRADE"
              /\ modalMode = "TRANSFER" => t.type \in {"DEPOSIT", "WITHDRAWAL"}]_vars

\* a withdrawal was saved in one opening, the form was opened again in TRADE
\* mode, and a trade has been saved there
C18_Witness ==
    /\ lastOp.op = "save"
    /\ isModalOpen
    /\ modalMode = "TRADE"
    /\ Len(transactions) = 2
    /\ transactions[1].type = "WITHDRAWAL"
    /\ transactions[2].type = "TRADE"

====
